---------------------------- MODULE Spec2Model ----------------------------
(***************************************************************************)
(* A model of blrec/bili/api.py: the request helper of BaseApi             *)
(* (_check_response, the retried _get_json_res, the sequential _get_json   *)
(* and the concurrent _get_jsons_concurrently), the app signer             *)
(* AppApi.signed and the WBI signer (getMixinKey, encWbi, getWbiKeys,      *)
(* wbi_sign_params, WebApi.get_danmu_info).                                *)
(*                                                                         *)
(* Time is counted in ticks of 0.1 s, the multiplier of wait_exponential.  *)
(* Text that the code inspects character by character (parameter values,   *)
(* URLs, keys, query strings) is a sequence of one-character strings.      *)
(***************************************************************************)
EXTENDS Integers, Sequences, FiniteSets, TLC

VARIABLES
    op,             \* the operation this run invokes
    pc,             \* position of the invoked coroutine
    base_urls,      \* the base_urls argument: a list of host names
    check_response, \* the check_response keyword (default True)
    tasks,          \* per position of base_urls: the state of its _get_json_res call
    idx,            \* _get_json: position of the for loop in base_urls
    exception,      \* _get_json: the local variable `exception`
    outcome,        \* how the invoked operation ended: returned value or raised error
    last,           \* history: the latest attempt of a sequential or single call
    params,         \* the parameter dict of the caller of the signer
    signedParams,   \* the dicts returned by the signer, one per call
    walltime,       \* time.time() at the call of encWbi
    nav,            \* what the navigation endpoint answers to getWbiKeys
    calls,          \* number of get_danmu_info calls started
    navFetches,     \* number of requests getWbiKeys has sent
    arg             \* history: the parameter mapping the signer was called with

vars == <<op, pc, base_urls, check_response, tasks, idx, exception, outcome,
          last, params, signedParams, walltime, nav, calls, navFetches, arg>>

reqVars == <<base_urls, check_response, tasks, idx, exception>>
signVars == <<params, signedParams, walltime, nav, calls, navFetches, arg>>

---------------------------------------------------------------------------
(* Bounds of the model *)

\* longest base_urls list of a call
MaxHosts == 3
\* longest base_urls list of a concurrent call
MaxGather == 2
\* number of calls of a signer or of get_danmu_info in a run
MaxCalls == 2
\* duration, in ticks, of an attempt that does not end at once
SlowAttempt == 60

(* Program constants *)

\* stop_after_delay(5): 5 s = 50 ticks
StopAfterDelay == 50
\* wait_exponential(0.1): 0.1 s = 1 tick
WaitMultiplier == 1
\* the non-zero code of the FIXME comment of WebApi.get_user_info
RiskCode == -352

HostNames == <<"A", "B", "C", "D", "E">>

Durations == {0, SlowAttempt}

---------------------------------------------------------------------------
(* Values *)

\* Python's None where a string is expected
None == "None"

\* A decoded JSON value as far as the helper looks at it: whether it is an
\* object, whether it has 'code', and what .get('message'), .get('msg') give.
Body(isdict, hascode, code, message, msg) ==
    [isdict |-> isdict, hascode |-> hascode, code |-> code,
     message |-> message, msg |-> msg]

NoBody == Body(FALSE, FALSE, 0, None, None)

Bodies ==
    { Body(TRUE, TRUE, 0, "ok", None),
      Body(TRUE, TRUE, RiskCode, "m", "s"),
      Body(TRUE, TRUE, RiskCode, "", "s"),
      Body(TRUE, TRUE, RiskCode, None, None),
      Body(TRUE, FALSE, 0, "m", None),
      NoBody }

\* An exception object: its class, the code and message of an ApiRequestError,
\* and the request (host position, attempt number) that raised it.
Exc(cls, code, message, host, attempt) ==
    [cls |-> cls, code |-> code, message |-> message, host |-> host,
     attempt |-> attempt]

NoExc == Exc("None", 0, "", 0, 0)

\* isinstance(e, Exception): CancelledError derives from BaseException only
IsException(e) == e.cls \notin {"None", "CancelledError"}

\* What one attempt of _get_json_res meets: the request fails in transport,
\* the task is cancelled at an await, the response is not JSON, or it decodes.
Replies ==
    { [t |-> "transport", body |-> NoBody],
      [t |-> "cancel", body |-> NoBody],
      [t |-> "nojson", body |-> NoBody] }
    \cup { [t |-> "json", body |-> b] : b \in Bodies }

\* The replies the gathered requests of a concurrent call draw from: one of
\* every kind that the retry decorator and the loop over the results tell apart
GatherReplies ==
    { r \in Replies :
        r.t = "json" => r.body \in { Body(TRUE, TRUE, 0, "ok", None),
                                     Body(TRUE, TRUE, RiskCode, "m", "s"),
                                     NoBody } }

\* The result of a _get_json_res call: the JSON value returned by a host, or a
\* raised exception.
Returned(b, host) == [kind |-> "return", body |-> b, exc |-> NoExc, host |-> host]
Raised(e) == [kind |-> "raise", body |-> NoBody, exc |-> e, host |-> e.host]
Pending == [kind |-> "none", body |-> NoBody, exc |-> NoExc, host |-> 0]

---------------------------------------------------------------------------
(* BaseApi._check_response *)

\* a or b for strings and None
Or(a, b) == IF a \notin {None, ""} THEN a ELSE b

ApiMessage(json_res) ==
    LET m == Or(Or(json_res.message, json_res.msg), "") IN
    IF m = None THEN "" ELSE m

\* a faulty variant: the message is taken from msg before message
CheckResponseMsgFirst(json_res, host, attempt) ==
    IF ~json_res.isdict THEN Exc("TypeError", 0, "", host, attempt)
    ELSE IF ~json_res.hascode THEN Exc("KeyError", 0, "", host, attempt)
    ELSE IF json_res.code # 0
         THEN Exc("ApiRequestError", json_res.code,
                  Or(Or(json_res.msg, json_res.message), ""), host, attempt)
         ELSE NoExc

\* NoExc when the check passes, else the exception it raises
_check_response(json_res, host, attempt) ==
    IF ~json_res.isdict THEN Exc("TypeError", 0, "", host, attempt)
    ELSE IF ~json_res.hascode THEN Exc("KeyError", 0, "", host, attempt)
    ELSE IF json_res.code # 0
         THEN Exc("ApiRequestError", json_res.code, ApiMessage(json_res),
                  host, attempt)
         ELSE NoExc

(* BaseApi._get_json_res: the body of one attempt *)
GetJsonResBody(reply, should_check_response, host, attempt) ==
    CASE reply.t = "transport" ->
            Raised(Exc("ClientError", 0, "", host, attempt))
      [] reply.t = "cancel" ->
            Raised(Exc("CancelledError", 0, "", host, attempt))
      [] reply.t = "nojson" ->
            Raised(Exc("ContentTypeError", 0, "", host, attempt))
      [] OTHER ->
            LET e == IF should_check_response
                     THEN _check_response(reply.body, host, attempt)
                     ELSE NoExc
            IN  IF e # NoExc THEN Raised(e) ELSE Returned(reply.body, host)

(* The @retry decorator of _get_json_res *)

RECURSIVE Pow2(_)
Pow2(n) == IF n <= 0 THEN 1 ELSE 2 * Pow2(n - 1)

\* wait_exponential(0.1): the sleep after the failed attempt number n
WaitExponential(attempt_number) == WaitMultiplier * Pow2(attempt_number - 1)

\* stop_after_delay(5)
StopCondition(seconds_since_start) == seconds_since_start >= StopAfterDelay

\* a faulty variant: only transport errors are retried
ShouldRetryTransportOnly(e) == e.cls = "ClientError"

\* retry=retry_if_exception_type(): the default, Exception and its subclasses
ShouldRetry(e) == IsException(e)

\* a faulty variant: reraise=False, the exception is wrapped in a RetryError
ReraiseRetryError(e) == [kind |-> "raise", body |-> NoBody,
                         exc |-> Exc("RetryError", 0, "", e.host, e.attempt),
                         host |-> e.host]

\* reraise=True: the exception of the last attempt, not a RetryError
Reraise(e) == Raised(e)

\* A retried call: its state (idle, pending, done, or caught once _get_json has
\* handled its exception), attempt_number, delay_since_first_attempt in ticks
\* as of the start of the current attempt or of the last failed one, and the
\* result once it has one.
Task(st, attempt, elapsed, item) ==
    [st |-> st, attempt |-> attempt, elapsed |-> elapsed, item |-> item]

IdleTask == Task("idle", 0, 0, Pending)
StartedTask == Task("pending", 1, 0, Pending)
CaughtTask == Task("caught", 0, 0, Pending)

\* One attempt of a pending call: the request takes dur ticks and meets reply.
\* A result ends the call; an exception ends it when it is not retried or the
\* delay is used up; otherwise the call sleeps and starts the next attempt.
RetryStep(t, reply, dur, should_check_response, host) ==
    LET now == t.elapsed + dur
        res == GetJsonResBody(reply, should_check_response, host, t.attempt)
    IN  IF res.kind = "return" THEN Task("done", t.attempt, t.elapsed, res)
        ELSE IF ~ShouldRetry(res.exc)
             THEN Task("done", t.attempt, t.elapsed, res)
        ELSE IF StopCondition(now)
             THEN Task("done", t.attempt, now, Reraise(res.exc))
             ELSE Task("pending", t.attempt + 1,
                       now + WaitExponential(t.attempt), Pending)

---------------------------------------------------------------------------
(* Text: str, int, dict, sorted, urlencode, md5 *)

\* the characters of the model in code-point order
Ascii ==
    <<" ", "!", "%", "&", "'", "(", ")", "*", "+", ",", "-", ".", "/",
      "0", "1", "2", "3", "4", "5", "6", "7", "8", "9", ":", "=", "A",
      "B", "C", "D", "E", "F", "_", "a", "b", "c", "d", "e", "f", "g",
      "h", "i", "j", "k", "l", "m", "n", "o", "p", "q", "r", "s", "t",
      "u", "v", "w", "x", "y", "z", "~">>

Ord(c) == CHOOSE i \in 1..Len(Ascii) : Ascii[i] = c

\* str < str: lexicographic by code point
RECURSIVE StrLess(_, _)
StrLess(a, b) ==
    IF b = <<>> THEN FALSE
    ELSE IF a = <<>> THEN TRUE
    ELSE IF Head(a) = Head(b) THEN StrLess(Tail(a), Tail(b))
    ELSE Ord(Head(a)) < Ord(Head(b))

\* a Python value: a str or an int, with its text
StrVal(chars) == [ty |-> "str", s |-> chars]
IntVal(digits) == [ty |-> "int", s |-> digits]

\* str(v)
ToStr(v) == StrVal(v.s)

\* A dict is the sequence of its items in insertion order, keys distinct.
Item(k, v) == [k |-> k, v |-> v]

Keys(d) == { d[i].k : i \in 1..Len(d) }

Get(d, k) == (CHOOSE it \in { d[i] : i \in 1..Len(d) } : it.k = k).v

\* d[k] = v: an existing key keeps its place
RECURSIVE DictSet(_, _, _)
DictSet(d, k, v) ==
    IF d = <<>> THEN <<Item(k, v)>>
    ELSE IF Head(d).k = k THEN <<Item(k, v)>> \o Tail(d)
    ELSE <<Head(d)>> \o DictSet(Tail(d), k, v)

\* dict(sorted(d.items())): the keys are distinct, so the key decides
RECURSIVE InsertItem(_, _)
InsertItem(x, s) ==
    IF s = <<>> THEN <<x>>
    ELSE IF StrLess(x.k, Head(s).k) THEN <<x>> \o s
    ELSE <<Head(s)>> \o InsertItem(x, Tail(s))

RECURSIVE SortedDict(_)
SortedDict(d) ==
    IF d = <<>> THEN <<>> ELSE InsertItem(Head(d), SortedDict(Tail(d)))

Letters == { Ascii[i] : i \in Ord("A")..Ord("F") } \cup
           { Ascii[i] : i \in Ord("a")..Ord("z") }
Digits == { Ascii[i] : i \in Ord("0")..Ord("9") }

\* the two hexadecimal digits of the code point of a character that
\* quote_plus escapes
PercentCode(c) ==
    CASE c = "!" -> <<"2", "1">>
      [] c = "%" -> <<"2", "5">>
      [] c = "&" -> <<"2", "6">>
      [] c = "'" -> <<"2", "7">>
      [] c = "(" -> <<"2", "8">>
      [] c = ")" -> <<"2", "9">>
      [] c = "*" -> <<"2", "A">>
      [] c = "+" -> <<"2", "B">>
      [] c = "," -> <<"2", "C">>
      [] c = "/" -> <<"2", "F">>
      [] c = ":" -> <<"3", "A">>
      [] c = "=" -> <<"3", "D">>

\* urllib.parse.quote_plus
RECURSIVE QuotePlus(_)
QuotePlus(chars) ==
    IF chars = <<>> THEN <<>>
    ELSE LET c == Head(chars) IN
         (IF c = " " THEN <<"+">>
          ELSE IF c \in Letters \cup Digits \cup {"_", ".", "-", "~"} THEN <<c>>
          ELSE <<"%">> \o PercentCode(c))
         \o QuotePlus(Tail(chars))

\* urllib.parse.urlencode of a dict of str and int values
RECURSIVE UrlEncode(_)
UrlEncode(d) ==
    IF d = <<>> THEN <<>>
    ELSE QuotePlus(Head(d).k) \o <<"=">> \o QuotePlus(ToStr(Head(d).v).s)
         \o (IF Tail(d) = <<>> THEN <<>> ELSE <<"&">> \o UrlEncode(Tail(d)))

\* hashlib.md5(text.encode()).hexdigest(): the digest is a function of the
\* text alone and different texts have different digests; it is written as
\* the text behind a mark that no text of the model starts with
Md5HexDigest(chars) == <<"md5:">> \o chars

---------------------------------------------------------------------------
(* AppApi.signed *)

_appkey ==
    <<"1", "d", "8", "b", "6", "e", "7", "d", "4", "5", "2", "3", "3",
      "4", "3", "6">>
_appsec ==
    <<"5", "6", "0", "c", "5", "2", "c", "c", "d", "2", "8", "8", "f",
      "e", "d", "0", "4", "5", "8", "5", "9", "e", "d", "1", "8", "b",
      "f", "f", "d", "9", "7", "3">>

K_appkey == <<"a", "p", "p", "k", "e", "y">>
K_sign == <<"s", "i", "g", "n">>
K_room_id == <<"r", "o", "o", "m", "_", "i", "d">>
K_id == <<"i", "d">>
K_type == <<"t", "y", "p", "e">>
K_wts == <<"w", "t", "s">>
K_w_rid == <<"w", "_", "r", "i", "d">>
K_web_location == <<"w", "e", "b", "_", "l", "o", "c", "a", "t", "i", "o", "n">>

\* a faulty variant: an appkey of the caller is kept
SignedKeepAppkey(p) ==
    LET merged == IF K_appkey \in Keys(p) THEN p
                  ELSE DictSet(p, K_appkey, StrVal(_appkey))
        sortedParams == SortedDict(merged)
        query == UrlEncode(sortedParams)
        sign == Md5HexDigest(query \o _appsec)
    IN  DictSet(sortedParams, K_sign, StrVal(sign))

\* the dict that signed(p) returns for a Mapping p
Signed(p) ==
    LET merged == DictSet(p, K_appkey, StrVal(_appkey))
        sortedParams == SortedDict(merged)
        query == UrlEncode(sortedParams)
        sign == Md5HexDigest(query \o _appsec)
    IN  DictSet(sortedParams, K_sign, StrVal(sign))

---------------------------------------------------------------------------
(* The WBI signer *)

mixinKeyEncTab ==
    <<46, 47, 18, 2, 53, 8, 23, 32, 15, 50, 10, 31, 58, 3, 45, 35,
      27, 43, 5, 49, 33, 9, 42, 19, 29, 28, 14, 39, 12, 38, 41, 13,
      37, 48, 7, 16, 24, 55, 40, 61, 26, 17, 0, 1, 60, 51, 30, 4,
      22, 25, 54, 21, 56, 59, 6, 63, 57, 62, 11, 36, 20, 34, 44, 52>>

\* What a signer step gives: an exception or a value
Fail(cls) == [err |-> Exc(cls, 0, "", 0, 0), val |-> <<>>]
Ok(val) == [err |-> NoExc, val |-> val]

\* a faulty variant: positions beyond the text are skipped
GetMixinKeyLenient(orig) ==
    Ok(SubSeq([n \in 1..Len(mixinKeyEncTab) |->
                  IF mixinKeyEncTab[n] < Len(orig)
                  THEN orig[mixinKeyEncTab[n] + 1] ELSE "0"], 1, 32))

\* reduce(lambda s, i: s + orig[i], mixinKeyEncTab, '')[:32]: orig[i] raises
\* IndexError when orig is too short for a position of the table
getMixinKey(orig) ==
    IF \E n \in 1..Len(mixinKeyEncTab) : mixinKeyEncTab[n] >= Len(orig)
    THEN Fail("IndexError")
    ELSE Ok(SubSeq([n \in 1..Len(mixinKeyEncTab) |->
                       orig[mixinKeyEncTab[n] + 1]], 1, 32))

\* ''.join(filter(lambda chr: chr not in "!'()*", str(v)))
StripChars(chars) ==
    SelectSeq(chars, LAMBDA c : c \notin {"!", "'", "(", ")", "*"})

RECURSIVE FilterValues(_)
FilterValues(d) ==
    IF d = <<>> THEN <<>>
    ELSE <<Item(Head(d).k, StrVal(StripChars(ToStr(Head(d).v).s)))>>
         \o FilterValues(Tail(d))

\* the dict the caller passed, after encWbi: wts has been set in it
EncWbiArgument(p, curr_time) == DictSet(p, K_wts, curr_time)

\* a faulty variant: the values are signed and returned as they came
EncWbiUnfiltered(p, img_key, sub_key, curr_time) ==
    LET mixin_key == getMixinKey(img_key \o sub_key) IN
    IF mixin_key.err # NoExc THEN mixin_key
    ELSE LET sortedParams == SortedDict(EncWbiArgument(p, curr_time))
             query == UrlEncode(sortedParams)
             wbi_sign == Md5HexDigest(query \o mixin_key.val)
         IN  Ok(DictSet(sortedParams, K_w_rid, StrVal(wbi_sign)))

\* encWbi: the dict it returns, or the exception of getMixinKey
encWbi(p, img_key, sub_key, curr_time) ==
    LET mixin_key == getMixinKey(img_key \o sub_key) IN
    IF mixin_key.err # NoExc THEN mixin_key
    ELSE LET sortedParams == SortedDict(EncWbiArgument(p, curr_time))
             filtered == FilterValues(sortedParams)
             query == UrlEncode(filtered)
             wbi_sign == Md5HexDigest(query \o mixin_key.val)
         IN  Ok(DictSet(filtered, K_w_rid, StrVal(wbi_sign)))

\* What the navigation endpoint does to the request of getWbiKeys: the
\* request fails, the status is an error, the body is not JSON, or it is JSON
\* with or without data.wbi_img and its two URLs.
NavReply(t, has_wbi_img, img_url, sub_url) ==
    [t |-> t, has_wbi_img |-> has_wbi_img, img_url |-> img_url,
     sub_url |-> sub_url]

ImgKey ==
    <<"7", "c", "d", "0", "8", "4", "9", "4", "1", "3", "3", "8", "4",
      "8", "4", "a", "a", "e", "1", "a", "d", "9", "4", "2", "5", "b",
      "8", "4", "0", "7", "7", "c">>
SubKey ==
    <<"4", "9", "3", "2", "c", "a", "f", "f", "0", "f", "f", "7", "4",
      "6", "e", "a", "a", "6", "f", "c", "b", "0", "e", "f", "f", "5",
      "c", "4", "7", "b", "0", "e">>
ImgKey2 ==
    <<"6", "5", "3", "6", "5", "7", "f", "5", "2", "4", "a", "5", "4",
      "7", "a", "c", "9", "8", "1", "d", "e", "d", "7", "2", "e", "a",
      "1", "7", "2", "0", "5", "7">>

UrlOf(key) == <<"/", "b", "f", "s", "/", "w", "b", "i", "/">> \o key
              \o <<".", "p", "n", "g">>

NoNav == NavReply("none", FALSE, <<>>, <<>>)

NavReplies ==
    { NavReply("network_error", FALSE, <<>>, <<>>),
      NavReply("http_error", FALSE, <<>>, <<>>),
      NavReply("not_json", FALSE, <<>>, <<>>),
      NavReply("json", FALSE, <<>>, <<>>),
      NavReply("json", TRUE, ImgKey \o <<".", "p", "n", "g">>, UrlOf(SubKey)),
      NavReply("json", TRUE, UrlOf(ImgKey), UrlOf(SubSeq(SubKey, 1, 31))),
      NavReply("json", TRUE, UrlOf(ImgKey), UrlOf(SubKey)),
      NavReply("json", TRUE, UrlOf(ImgKey2), UrlOf(SubKey)) }

\* url.rsplit('/', 1): the text after the last '/', when there is one
RECURSIVE AfterLastSlash(_)
AfterLastSlash(url) ==
    IF "/" \in { url[i] : i \in 1..Len(url) }
    THEN AfterLastSlash(Tail(url)) ELSE url

\* text.split('.')[0]
RECURSIVE BeforeFirstDot(_)
BeforeFirstDot(text) ==
    IF text = <<>> \/ Head(text) = "." THEN <<>>
    ELSE <<Head(text)>> \o BeforeFirstDot(Tail(text))

\* url.rsplit('/', 1)[1].split('.')[0]; [1] raises IndexError without a '/'
KeyOfUrl(url) ==
    IF "/" \notin { url[i] : i \in 1..Len(url) } THEN Fail("IndexError")
    ELSE Ok(BeforeFirstDot(AfterLastSlash(url)))

\* getWbiKeys: <<img_key, sub_key>> or the exception it raises
getWbiKeys(reply) ==
    CASE reply.t = "network_error" -> Fail("ConnectionError")
      [] reply.t = "http_error" -> Fail("HTTPError")
      [] reply.t = "not_json" -> Fail("JSONDecodeError")
      [] OTHER ->
            IF ~reply.has_wbi_img THEN Fail("KeyError")
            ELSE LET img_key == KeyOfUrl(reply.img_url)
                     sub_key == KeyOfUrl(reply.sub_url)
                 IN  IF img_key.err # NoExc THEN img_key
                     ELSE IF sub_key.err # NoExc THEN sub_key
                     ELSE Ok(<<img_key.val, sub_key.val>>)

\* wbi_sign_params: <<w_rid, wts>> or the exception raised on the way
wbi_sign_params(p, reply, curr_time) ==
    LET keys == getWbiKeys(reply) IN
    IF keys.err # NoExc THEN keys
    ELSE LET signed_params == encWbi(p, keys.val[1], keys.val[2], curr_time) IN
         IF signed_params.err # NoExc THEN signed_params
         ELSE Ok(<<Get(signed_params.val, K_w_rid),
                   Get(signed_params.val, K_wts)>>)

\* WebApi.get_danmu_info: params as built at the start
DanmuParams(room_id) == <<Item(K_id, room_id), Item(K_type, IntVal(<<"0">>))>>

\* WebApi.get_danmu_info: params as passed to _get_json
DanmuRequestParams(p, signature) ==
    DictSet(DictSet(DictSet(p, K_w_rid, signature[1]), K_wts, signature[2]),
            K_web_location, StrVal(<<"4", "4", "4", ".", "8">>))

---------------------------------------------------------------------------
(* Calls of the request helper *)

\* A JSON response as the caller gets it, with the host it came from
Response(b, host) == [body |-> b, host |-> host]

ItemResponse(item) == Response(item.body, item.host)

Running == [kind |-> "none", exc |-> NoExc, responses |-> <<>>]
CallReturned(rs) == [kind |-> "return", exc |-> NoExc, responses |-> rs]
CallRaised(e) == [kind |-> "raise", exc |-> e, responses |-> <<>>]

\* history: the attempt number `attempt` to position `host`, which took dur
\* ticks, ended `now` ticks after the call started, met reply and gave res
Attempt(host, attempt, reply, dur, now, res) ==
    [host |-> host, attempt |-> attempt, reply |-> reply, dur |-> dur,
     now |-> now, res |-> res]

NoAttempt == Attempt(0, 0, [t |-> "none", body |-> NoBody], 0, 0, Pending)

AttemptOf(t, reply, dur, should_check_response, host) ==
    Attempt(host, t.attempt, reply, dur, t.elapsed + dur,
            GetJsonResBody(reply, should_check_response, host, t.attempt))

HostLists(max) == { SubSeq(HostNames, 1, n) : n \in 0..max }

NoTasks(urls) == [i \in 1..Len(urls) |-> IdleTask]

(* BaseApi._get_json_res called on one url *)

GetJsonResAttempt ==
    /\ pc = "get_json_res"
    /\ tasks[1].st = "pending"
    /\ \E reply \in Replies, dur \in Durations :
         LET t == RetryStep(tasks[1], reply, dur, check_response, 1) IN
           /\ tasks' = [tasks EXCEPT ![1] = t]
           /\ last' = AttemptOf(tasks[1], reply, dur, check_response, 1)
           /\ IF t.st = "done"
              THEN /\ pc' = "done"
                   /\ outcome' = IF t.item.kind = "return"
                                 THEN CallReturned(<<ItemResponse(t.item)>>)
                                 ELSE CallRaised(t.item.exc)
              ELSE UNCHANGED <<pc, outcome>>
    /\ UNCHANGED <<op, base_urls, check_response, idx, exception>>
    /\ UNCHANGED signVars

(* BaseApi._get_json *)

\* the call up to its first await
GetJsonStart ==
    /\ pc = "get_json"
    /\ IF base_urls = <<>>
       THEN /\ outcome' = CallRaised(Exc("ValueError", 0, "", 0, 0))
            /\ pc' = "done"
            /\ UNCHANGED <<tasks, idx>>
       ELSE /\ idx' = 1
            /\ tasks' = [tasks EXCEPT ![1] = StartedTask]
            /\ pc' = "get_json_await"
            /\ UNCHANGED outcome
    /\ UNCHANGED <<op, base_urls, check_response, exception, last>>
    /\ UNCHANGED signVars

\* a faulty variant: the first exception is kept instead of the latest
GetJsonResumeKeepFirst(i, ts, item, exc0) ==
    LET kept == IF exc0 # NoExc THEN exc0 ELSE item.exc IN
    IF item.kind = "return"
    THEN <<"done", i, ts, exc0, CallReturned(<<ItemResponse(item)>>)>>
    ELSE IF ~IsException(item.exc)
    THEN <<"done", i, ts, exc0, CallRaised(item.exc)>>
    ELSE IF i < Len(base_urls)
    THEN <<"get_json_await", i + 1,
           [ts EXCEPT ![i] = CaughtTask, ![i + 1] = StartedTask],
           kept, Running>>
    ELSE <<"done", i, ts, kept, CallRaised(kept)>>

\* What _get_json does when the awaited _get_json_res of position i ends with
\* item: <<pc, idx, tasks, exception, outcome>> after it.
GetJsonResume(i, ts, item, exc0) ==
    IF item.kind = "return"
    THEN <<"done", i, ts, exc0, CallReturned(<<ItemResponse(item)>>)>>
    ELSE IF ~IsException(item.exc)
    THEN <<"done", i, ts, exc0, CallRaised(item.exc)>>
    ELSE IF i < Len(base_urls)
    THEN <<"get_json_await", i + 1,
           [ts EXCEPT ![i] = CaughtTask, ![i + 1] = StartedTask],
           item.exc, Running>>
    ELSE <<"done", i, ts, item.exc, CallRaised(item.exc)>>

\* an attempt of the awaited _get_json_res, and what follows without an await
GetJsonAttempt ==
    /\ pc = "get_json_await"
    /\ tasks[idx].st = "pending"
    /\ \E reply \in Replies, dur \in Durations :
         LET t == RetryStep(tasks[idx], reply, dur, check_response, idx)
             ts == [tasks EXCEPT ![idx] = t]
         IN
           /\ IF t.st = "done"
              THEN LET r == GetJsonResume(idx, ts, t.item, exception) IN
                   /\ pc' = r[1]
                   /\ idx' = r[2]
                   /\ tasks' = r[3]
                   /\ exception' = r[4]
                   /\ outcome' = r[5]
              ELSE /\ tasks' = ts
                   /\ UNCHANGED <<pc, idx, exception, outcome>>
           /\ last' = AttemptOf(tasks[idx], reply, dur, check_response, idx)
    /\ UNCHANGED <<op, base_urls, check_response>>
    /\ UNCHANGED signVars

(* BaseApi._get_jsons_concurrently *)

\* the call up to the await of asyncio.gather: every request is started
ConcurrentStart ==
    /\ pc = "concurrent"
    /\ IF base_urls = <<>>
       THEN /\ outcome' = CallRaised(Exc("ValueError", 0, "", 0, 0))
            /\ pc' = "done"
            /\ UNCHANGED tasks
       ELSE /\ tasks' = [i \in 1..Len(base_urls) |-> StartedTask]
            /\ pc' = "gather"
            /\ UNCHANGED outcome
    /\ UNCHANGED <<op, base_urls, check_response, idx, exception, last>>
    /\ UNCHANGED signVars

\* an attempt of one of the gathered requests
ConcurrentAttempt ==
    /\ pc = "gather"
    /\ \E i \in 1..Len(base_urls), reply \in GatherReplies, dur \in Durations :
         /\ tasks[i].st = "pending"
         /\ tasks' = [tasks EXCEPT
                        ![i] = RetryStep(tasks[i], reply, dur, check_response, i)]
    /\ UNCHANGED <<op, pc, base_urls, check_response, idx, exception, outcome,
                   last>>
    /\ UNCHANGED signVars

\* a faulty variant: the gather ends with the first request that ends
GatherFirstCompleted(ts) == \E i \in 1..Len(ts) : ts[i].st = "done"

\* asyncio.gather(*aws, return_exceptions=True) has its result
GatherDone(ts) == \A i \in 1..Len(ts) : ts[i].st = "done"

\* results: per request the returned value or the exception object
GatherResults(ts) == [i \in 1..Len(ts) |-> ts[i].item]

IsExceptionItem(item) == item.kind = "raise" /\ IsException(item.exc)
IsDictItem(item) == item.kind = "return" /\ item.body.isdict

ItemExc(item) == item.exc

RECURSIVE MapSeq(_, _)
MapSeq(F(_), s) ==
    IF s = <<>> THEN <<>> ELSE <<F(Head(s))>> \o MapSeq(F, Tail(s))

\* a faulty variant: any captured exception is raised, also beside a success
CollectRaiseOnAnyError(results) ==
    LET exceptions == MapSeq(ItemExc, SelectSeq(results, IsExceptionItem))
        json_responses == MapSeq(ItemResponse, SelectSeq(results, IsDictItem))
    IN  IF exceptions # <<>> THEN CallRaised(exceptions[1])
        ELSE IF json_responses = <<>>
             THEN CallRaised(Exc("IndexError", 0, "", 0, 0))
             ELSE CallReturned(json_responses)

\* the loop over results and the decision after it
Collect(results) ==
    LET exceptions == MapSeq(ItemExc, SelectSeq(results, IsExceptionItem))
        json_responses == MapSeq(ItemResponse, SelectSeq(results, IsDictItem))
    IN  IF json_responses = <<>>
        THEN IF exceptions = <<>>
             THEN CallRaised(Exc("IndexError", 0, "", 0, 0))
             ELSE CallRaised(exceptions[1])
        ELSE CallReturned(json_responses)

ConcurrentCollect ==
    /\ pc = "gather"
    /\ GatherDone(tasks)
    /\ outcome' = Collect(GatherResults(tasks))
    /\ pc' = "done"
    /\ UNCHANGED <<op, base_urls, check_response, tasks, idx, exception, last>>
    /\ UNCHANGED signVars

---------------------------------------------------------------------------
(* Calls of the signers *)

\* round(time.time()) at a call
Times == { IntVal(<<"1", "7">>), IntVal(<<"1", "8">>) }
NoTime == IntVal(<<"0">>)

RoomIds == { IntVal(<<"7">>), IntVal(<<"1", "2">>) }

\* the dicts with keys among ks, in the order of ks, and values among vals
RECURSIVE DictsOver(_, _)
DictsOver(ks, vals) ==
    IF ks = <<>> THEN { <<>> }
    ELSE LET rest == DictsOver(Tail(ks), vals) IN
         rest \cup { <<Item(Head(ks), v)>> \o d : v \in vals, d \in rest }

SignedValues ==
    { IntVal(<<"7">>), StrVal(<<"0", ",", "1">>), StrVal(<<"a", " ", "b">>) }

SignedInputs ==
    DictsOver(<<K_appkey, K_room_id, K_sign>>, SignedValues)
    \cup DictsOver(<<K_sign, K_room_id, K_appkey>>, SignedValues)

WbiValues ==
    { IntVal(<<"0">>), IntVal(<<"1", "2">>),
      StrVal(<<"a", "!", "'", "(", ")", "*", "b">>),
      StrVal(<<"4", ".", "8">>) }

WbiInputs ==
    DictsOver(<<K_id, K_type, K_wts>>, WbiValues)
    \cup DictsOver(<<K_wts, K_type, K_id>>, WbiValues)

\* a call of AppApi.signed(params)
SignedCall ==
    /\ pc = "signed"
    /\ signedParams' = Append(signedParams, Signed(params))
    /\ calls' = calls + 1
    /\ pc' = IF calls + 1 >= MaxCalls THEN "done" ELSE "signed"
    /\ UNCHANGED <<op, params, walltime, nav, navFetches, arg, outcome, last>>
    /\ UNCHANGED reqVars

\* a call of encWbi(params, img_key, sub_key) with the keys of a nav reply
EncWbiCall ==
    /\ pc = "encWbi"
    /\ LET keys == getWbiKeys(nav).val
           r == encWbi(params, keys[1], keys[2], walltime)
       IN  IF r.err # NoExc
           THEN /\ outcome' = CallRaised(r.err)
                /\ UNCHANGED <<params, signedParams>>
           ELSE /\ outcome' = CallReturned(<<>>)
                /\ params' = EncWbiArgument(params, walltime)
                /\ signedParams' = <<r.val>>
    /\ calls' = calls + 1
    /\ pc' = "done"
    /\ UNCHANGED <<op, walltime, nav, navFetches, arg, last>>
    /\ UNCHANGED reqVars

\* WebApi.get_danmu_info up to its await: the blocking key fetch, the
\* signature, and the params of the request
DanmuSign ==
    /\ pc = "danmu"
    /\ \E room_id \in RoomIds, reply \in NavReplies, curr_time \in Times :
         LET p == DanmuParams(room_id)
             signature == wbi_sign_params(p, reply, curr_time)
         IN  /\ arg' = p
             /\ nav' = reply
             /\ walltime' = curr_time
             /\ navFetches' = navFetches + 1
             /\ IF signature.err # NoExc
                THEN /\ outcome' = CallRaised(signature.err)
                     /\ params' = p
                     /\ pc' = "done"
                ELSE /\ params' = DanmuRequestParams(p, signature.val)
                     /\ pc' = "get_json"
                     /\ UNCHANGED outcome
    /\ UNCHANGED <<op, signedParams, calls, last>>
    /\ UNCHANGED reqVars

\* get_danmu_info is called again
DanmuAgain ==
    /\ op = "danmu"
    /\ pc = "done"
    /\ calls < MaxCalls
    /\ calls' = calls + 1
    /\ pc' = "danmu"
    /\ tasks' = NoTasks(base_urls)
    /\ idx' = 0
    /\ exception' = NoExc
    /\ outcome' = Running
    /\ last' = NoAttempt
    /\ params' = <<>>
    /\ arg' = <<>>
    /\ UNCHANGED <<op, base_urls, check_response, signedParams, walltime, nav,
                   navFetches>>

---------------------------------------------------------------------------
(* Specifications of the request helper *)

NoSignState ==
    /\ params = <<>>
    /\ signedParams = <<>>
    /\ walltime = NoTime
    /\ nav = NoNav
    /\ calls = 0
    /\ navFetches = 0
    /\ arg = <<>>

InitRequest(o, max) ==
    /\ op = o
    /\ pc = o
    /\ base_urls \in HostLists(max)
    /\ check_response \in BOOLEAN
    /\ tasks = NoTasks(base_urls)
    /\ idx = 0
    /\ exception = NoExc
    /\ outcome = Running
    /\ last = NoAttempt
    /\ NoSignState

InitGetJsonRes ==
    /\ op = "get_json_res"
    /\ pc = "get_json_res"
    /\ base_urls = <<HostNames[1]>>
    /\ check_response \in BOOLEAN
    /\ tasks = <<StartedTask>>
    /\ idx = 1
    /\ exception = NoExc
    /\ outcome = Running
    /\ last = NoAttempt
    /\ NoSignState
NextGetJsonRes == GetJsonResAttempt
SpecGetJsonRes == InitGetJsonRes /\ [][NextGetJsonRes]_vars
\* the event loop resumes the coroutine, and every request ends within its timeout
FairGetJsonRes == SpecGetJsonRes /\ WF_vars(GetJsonResAttempt)

InitGetJson == InitRequest("get_json", MaxHosts)
NextGetJson == GetJsonStart \/ GetJsonAttempt
SpecGetJson == InitGetJson /\ [][NextGetJson]_vars

InitConcurrent == InitRequest("concurrent", MaxGather)
NextConcurrent == ConcurrentStart \/ ConcurrentAttempt \/ ConcurrentCollect
SpecConcurrent == InitConcurrent /\ [][NextConcurrent]_vars

---------------------------------------------------------------------------
(* Specifications of the signers *)

InitSigner ==
    /\ base_urls = <<>>
    /\ check_response = TRUE
    /\ tasks = <<>>
    /\ idx = 0
    /\ exception = NoExc
    /\ outcome = Running
    /\ last = NoAttempt
    /\ signedParams = <<>>
    /\ calls = 0
    /\ navFetches = 0

InitSigned ==
    /\ op = "signed"
    /\ pc = "signed"
    /\ params \in SignedInputs
    /\ arg = params
    /\ walltime = NoTime
    /\ nav = NoNav
    /\ InitSigner
NextSigned == SignedCall
SpecSigned == InitSigned /\ [][NextSigned]_vars

InitEncWbi ==
    /\ op = "encWbi"
    /\ pc = "encWbi"
    /\ params \in WbiInputs
    /\ arg = params
    /\ walltime \in Times
    /\ nav \in { r \in NavReplies : getWbiKeys(r).err = NoExc }
    /\ InitSigner

InitDanmu ==
    /\ op = "danmu"
    /\ pc = "danmu"
    /\ base_urls \in HostLists(1)
    /\ check_response = TRUE
    /\ tasks = NoTasks(base_urls)
    /\ idx = 0
    /\ exception = NoExc
    /\ outcome = Running
    /\ last = NoAttempt
    /\ params = <<>>
    /\ arg = <<>>
    /\ signedParams = <<>>
    /\ walltime = NoTime
    /\ nav = NoNav
    /\ calls = 1
    /\ navFetches = 0

InitWbi == InitEncWbi \/ InitDanmu
NextWbi ==
    \/ EncWbiCall
    \/ DanmuSign
    \/ GetJsonStart
    \/ GetJsonAttempt
    \/ DanmuAgain
SpecWbi == InitWbi /\ [][NextWbi]_vars

---------------------------------------------------------------------------
(* Properties of the request helper *)

Hosts == 1..Len(base_urls)

\* the request to position i ended with a JSON object
Succeeded(i) ==
    /\ tasks[i].st = "done"
    /\ tasks[i].item.kind = "return"
    /\ tasks[i].item.body.isdict

\* the request to position i ended with an exception
Failed(i) ==
    \/ tasks[i].st = "caught"
    \/ tasks[i].st = "done" /\ tasks[i].item.kind = "raise"

\* an attempt ended with an exception that the retry decorator retries
Retriable(res) == res.kind = "raise" /\ res.exc.cls \notin {"None", "CancelledError"}

\* C1: _get_json over a non-empty list returns the response of the first host,
\* in list order, whose request succeeds, and when the requests to all hosts
\* have failed it raises the error of the last host of the list.
C1_FirstSuccessElseLastError ==
    /\ \A i \in Hosts :
         (tasks[i].st = "done" /\ tasks[i].item.kind = "return") =>
            /\ \A j \in 1..(i - 1) : Failed(j)
            /\ \A j \in (i + 1)..Len(base_urls) : tasks[j].st = "idle"
            /\ outcome = CallReturned(<<Response(tasks[i].item.body, i)>>)
    /\ (base_urls # <<>> /\ \A i \in Hosts : Failed(i)) =>
            /\ outcome.kind = "raise"
            /\ outcome.exc.host = Len(base_urls)
            /\ outcome.exc = tasks[Len(base_urls)].item.exc
            /\ outcome.exc = last.res.exc
    /\ outcome.kind = "return" =>
            \E i \in Hosts : tasks[i].st = "done" /\ tasks[i].item.kind = "return"

\* hosts [A fails, B succeeds]: B's response is returned
C1_Witness ==
    /\ Len(base_urls) >= 2
    /\ tasks[1].st = "caught"
    /\ outcome.kind = "return"
    /\ outcome.responses[1].host = 2

RECURSIVE SuccessesFrom(_)
SuccessesFrom(i) ==
    IF i > Len(base_urls) THEN <<>>
    ELSE (IF Succeeded(i) THEN <<Response(tasks[i].item.body, i)>> ELSE <<>>)
         \o SuccessesFrom(i + 1)

\* C2: when at least one host of _get_jsons_concurrently succeeds, the call
\* raises nothing and returns exactly the responses of the hosts that
\* succeeded, one per host, in host-list order, whatever the completion order.
C2_ReturnsAllSuccesses ==
    (pc = "done" /\ \E i \in Hosts : Succeeded(i)) =>
        outcome = CallReturned(SuccessesFrom(1))

\* hosts [A fails, B succeeds after more attempts than A took]
C2_Witness ==
    /\ pc = "done"
    /\ Len(base_urls) = 2
    /\ Failed(1) /\ Succeeded(2)
    /\ tasks[2].attempt > tasks[1].attempt
    /\ Len(outcome.responses) = 1

\* C3: when no host yields a successful response, _get_jsons_concurrently
\* raises the first captured exception: the error of the earliest failing host.
C3_RaisesFirstError ==
    (pc = "done" /\ base_urls # <<>> /\ ~\E i \in Hosts : Succeeded(i)) =>
        /\ outcome.kind = "raise"
        /\ \E i \in Hosts :
             /\ tasks[i].item.kind = "raise"
             /\ outcome.exc = tasks[i].item.exc
             /\ \A j \in 1..(i - 1) : tasks[j].item.kind # "raise"

C4_Inv ==
    /\ pc = "gather" => /\ outcome = Running
                        /\ \A i \in Hosts : tasks[i].st \in {"pending", "done"}
    /\ (outcome # Running /\ base_urls # <<>>) =>
            \A i \in Hosts : tasks[i].st = "done"

\* C4: _get_jsons_concurrently starts a request to every host and has its
\* result or exception only after every request has settled; a request that
\* ends leaves the other requests as they are.
C4_WaitForAll ==
    /\ []C4_Inv
    /\ [][\A i, j \in Hosts :
            (i # j /\ tasks'[i] # tasks[i] /\ tasks[i].st # "idle")
                => tasks'[j] = tasks[j]]_vars

\* an early success: one request has returned, another is still pending, and
\* the call has neither returned nor raised
C4_Witness ==
    /\ pc = "gather"
    /\ outcome = Running
    /\ \E i, j \in Hosts : Succeeded(i) /\ tasks[j].st = "pending"

\* message, else msg, else the empty string
ExpectedMessage(b) ==
    IF b.message \notin {None, ""} THEN b.message
    ELSE IF b.msg \notin {None, ""} THEN b.msg ELSE ""

HasCode(reply) == reply.t = "json" /\ reply.body.isdict /\ reply.body.hascode

RaisesApiError(a) ==
    /\ a.res.kind = "raise"
    /\ a.res.exc.cls = "ApiRequestError"
    /\ a.res.exc.code = a.reply.body.code
    /\ a.res.exc.message = ExpectedMessage(a.reply.body)

\* C5 as stated: every decoded response with a non-zero code raises an
\* ApiRequestError with that code and message and is never returned; a
\* response with code 0 raises no application error.
C5_NeverSwallowed ==
    /\ (HasCode(last.reply) /\ last.reply.body.code # 0) =>
            /\ RaisesApiError(last)
            /\ outcome.kind # "return"
    /\ (HasCode(last.reply) /\ last.reply.body.code = 0) =>
            outcome = CallReturned(<<Response(last.reply.body, 1)>>)

\* C5 amended: with check_response enabled (the default) every decoded
\* response with a non-zero code raises an ApiRequestError with that code and
\* message (message, else msg, else '') and is never returned; with
\* check_response disabled it is returned as it is; code 0 raises nothing.
C5_CheckedNeverSwallowed ==
    /\ (check_response /\ HasCode(last.reply) /\ last.reply.body.code # 0) =>
            /\ RaisesApiError(last)
            /\ outcome.kind # "return"
    /\ (~check_response /\ HasCode(last.reply) /\ last.reply.body.code # 0) =>
            outcome = CallReturned(<<Response(last.reply.body, 1)>>)
    /\ (HasCode(last.reply) /\ last.reply.body.code = 0) =>
            outcome = CallReturned(<<Response(last.reply.body, 1)>>)
    /\ (outcome.kind = "raise" /\ outcome.exc.cls = "ApiRequestError") =>
            /\ check_response
            /\ outcome.exc = last.res.exc
            /\ RaisesApiError(last)

\* a response with a non-zero code, an empty message and a msg has raised
C5_Witness ==
    /\ check_response
    /\ outcome.kind = "raise"
    /\ outcome.exc.cls = "ApiRequestError"
    /\ last.reply.body.message = ""
    /\ outcome.exc.message = "s"

C6_Inv ==
    /\ (last.reply.t = "transport" /\ last.now < StopAfterDelay) =>
            /\ tasks[1].st = "pending"
            /\ tasks[1].attempt = last.attempt + 1
            /\ outcome = Running
    /\ last.res.kind = "return" =>
            /\ tasks[1].st = "done"
            /\ tasks[1].attempt = last.attempt
            /\ outcome = CallReturned(<<Response(last.reply.body, 1)>>)
    /\ (last.reply.t = "transport" /\ last.now >= StopAfterDelay) =>
            /\ tasks[1].st = "done"
            /\ tasks[1].attempt = last.attempt
            /\ outcome = CallRaised(Exc("ClientError", 0, "", 1, last.attempt))

\* C6: in _get_json_res a transport failure is followed by another attempt
\* while the retry delay has not elapsed; the first attempt that succeeds ends
\* the call with its response and no further attempt; once the delay has
\* elapsed the call ends by raising the transport error of the last attempt.
C6_RetryUntilDeadline ==
    /\ []C6_Inv
    /\ [][tasks[1].st = "done" => tasks' = tasks /\ last' = last]_vars
    /\ <>(tasks[1].st = "done")

\* the delay elapsed after several attempts and the last transport error is out
C6_Witness ==
    /\ op = "get_json_res"
    /\ outcome.kind = "raise"
    /\ outcome.exc.cls = "ClientError"
    /\ outcome.exc.attempt > 2
    /\ last.dur = 0

\* C10 as stated, its last part: a host that answers with a non-zero code has
\* been requested more than once when its error is caught or raised.
C10_RequestedMoreThanOnce ==
    /\ exception.cls = "ApiRequestError" => exception.attempt > 1
    /\ (outcome.kind = "raise" /\ outcome.exc.cls = "ApiRequestError") =>
            outcome.exc.attempt > 1

\* C10 amended: every failed attempt, of any kind of Exception, is retried
\* until the retry delay has elapsed; _get_json contacts the next host only
\* when the retries of the host before are exhausted; a host that answers with
\* a non-zero code is requested more than once unless its first answer came
\* after the delay had elapsed.
C10_RetriesWhateverTheError ==
    /\ (Retriable(last.res) /\ last.now < StopAfterDelay) =>
            /\ idx = last.host
            /\ tasks[idx].st = "pending"
            /\ tasks[idx].attempt = last.attempt + 1
            /\ outcome = Running
    /\ \A i \in Hosts : tasks[i].st # "idle" => \A j \in 1..(i - 1) : Failed(j)
    /\ (idx > 1 /\ tasks[idx] = StartedTask) =>
            /\ last.host = idx - 1
            /\ Retriable(last.res)
            /\ last.now >= StopAfterDelay
            /\ exception = last.res.exc
    /\ \A e \in {exception, outcome.exc} :
            (e.cls \notin {"None", "CancelledError", "ValueError"}
               /\ e.attempt = 1 /\ last.host = e.host)
                => last.dur >= StopAfterDelay

\* a host answered with a non-zero code at once, several times, and the next
\* host is being tried
C10_Witness ==
    /\ idx = 2
    /\ tasks[2] = StartedTask
    /\ exception.cls = "ApiRequestError"
    /\ exception.attempt > 2
    /\ last.dur = 0


---------------------------------------------------------------------------
(* Properties of the signers *)

\* the keys of the model in lexicographic order
AllKeysSorted ==
    <<K_appkey, K_id, K_room_id, K_sign, K_type, K_w_rid, K_web_location, K_wts>>

\* the items of the mapping with keys ks and values val[k], in the order of
\* AllKeysSorted
RECURSIVE RefItems(_, _, _)
RefItems(order, ks, val) ==
    IF order = <<>> THEN <<>>
    ELSE (IF Head(order) \in ks
          THEN <<Item(Head(order), val[Head(order)])>> ELSE <<>>)
         \o RefItems(Tail(order), ks, val)

\* MD5 of the urlencoded key-sorted mapping p with appkey, then the secret
RefSign(p) ==
    LET ks == Keys(p) \cup {K_appkey}
        val == [k \in ks |-> IF k = K_appkey THEN StrVal(_appkey) ELSE Get(p, k)]
    IN  StrVal(Md5HexDigest(UrlEncode(RefItems(AllKeysSorted, ks, val))
                            \o _appsec))

SignedShape(p, out) ==
    /\ Keys(out) = Keys(p) \cup {K_appkey, K_sign}
    /\ Len(out) = Cardinality(Keys(out))
    /\ Get(out, K_appkey) = StrVal(_appkey)
    /\ Get(out, K_sign) = RefSign(p)

\* C7 as stated: signed(p) has the keys of p plus appkey and sign, appkey is
\* the fixed app key, every other value of p is unchanged, sign is the MD5 of
\* the reference computation, equal p give equal results, p is not modified.
C7_SignedAsReference ==
    /\ \A n \in 1..Len(signedParams) :
         /\ SignedShape(arg, signedParams[n])
         /\ \A k \in Keys(arg) \ {K_appkey} :
                Get(signedParams[n], k) = Get(arg, k)
    /\ \A m, n \in 1..Len(signedParams) : signedParams[m] = signedParams[n]
    /\ params = arg

\* C7 amended: as stated, except that a sign entry of p is not kept: it is
\* part of the signed query and is then replaced by the computed sign.
C7_SignedAsReferenceButSign ==
    /\ \A n \in 1..Len(signedParams) :
         /\ SignedShape(arg, signedParams[n])
         /\ \A k \in Keys(arg) \ {K_appkey, K_sign} :
                Get(signedParams[n], k) = Get(arg, k)
    /\ \A m, n \in 1..Len(signedParams) : signedParams[m] = signedParams[n]
    /\ params = arg

\* a mapping given in descending key order, with an appkey and a sign of its
\* own, has been signed twice
C7_Witness ==
    /\ op = "signed"
    /\ Len(signedParams) = 2
    /\ Len(arg) = 3
    /\ arg[1].k = K_sign
    /\ arg[3].k = K_appkey

\* the characters of text that are not among !'()*
RECURSIVE RefStrip(_)
RefStrip(text) ==
    IF text = <<>> THEN <<>>
    ELSE (IF Head(text) = "!" \/ Head(text) = "'" \/ Head(text) = "("
             \/ Head(text) = ")" \/ Head(text) = "*"
          THEN <<>> ELSE <<Head(text)>>)
         \o RefStrip(Tail(text))

\* a getDanmuInfo request has been sent
DanmuRequested == op = "danmu" /\ \E i \in Hosts : tasks[i].st # "idle"

EncWbiReturned == op = "encWbi" /\ pc = "done" /\ outcome.kind = "return"

\* C8 as stated: the output of encWbi, and the params get_danmu_info sends,
\* have every original key with its original value, plus wts and w_rid, and
\* no other field.
C8_OriginalPlusWtsWrid ==
    /\ EncWbiReturned =>
         /\ Keys(signedParams[1]) = Keys(arg) \cup {K_wts, K_w_rid}
         /\ \A k \in Keys(arg) \ {K_wts, K_w_rid} :
                Get(signedParams[1], k) = Get(arg, k)
    /\ DanmuRequested =>
         /\ Keys(params) = Keys(arg) \cup {K_wts, K_w_rid}
         /\ \A k \in Keys(arg) : Get(params, k) = Get(arg, k)

\* C8 amended: the output of encWbi has exactly the original keys plus wts
\* and w_rid, and every value in it is the string form of the original value
\* without the characters !'()* (wts: of the current time); get_danmu_info
\* sends the original keys with their original values, plus w_rid, wts (the
\* string form of the time) and web_location, and no other field.
C8_FilteredPlusWtsWrid ==
    /\ EncWbiReturned =>
         /\ Keys(signedParams[1]) = Keys(arg) \cup {K_wts, K_w_rid}
         /\ Len(signedParams[1]) = Cardinality(Keys(signedParams[1]))
         /\ \A k \in Keys(arg) \ {K_wts, K_w_rid} :
                Get(signedParams[1], k) = StrVal(RefStrip(Get(arg, k).s))
         /\ Get(signedParams[1], K_wts) = StrVal(walltime.s)
         /\ Get(signedParams[1], K_w_rid).ty = "str"
         /\ Head(Get(signedParams[1], K_w_rid).s) = "md5:"
    /\ DanmuRequested =>
         /\ Keys(params) = Keys(arg) \cup {K_wts, K_w_rid, K_web_location}
         /\ Len(params) = Cardinality(Keys(params))
         /\ \A k \in Keys(arg) : Get(params, k) = Get(arg, k)
         /\ Get(params, K_wts) = StrVal(walltime.s)
         /\ Head(Get(params, K_w_rid).s) = "md5:"

\* encWbi has signed a mapping with an int and a value with !'()* in it
C8_Witness ==
    /\ EncWbiReturned
    /\ K_id \in Keys(arg) /\ K_type \in Keys(arg)
    /\ Get(arg, K_id) = StrVal(<<"a", "!", "'", "(", ")", "*", "b">>)
    /\ Get(arg, K_type).ty = "int"
    /\ Get(signedParams[1], K_id) = StrVal(<<"a", "b">>)

\* the exception a navigation reply leads to, NoExc when the keys are good
RefNavError(reply) ==
    IF reply.t = "network_error" THEN Exc("ConnectionError", 0, "", 0, 0)
    ELSE IF reply.t = "http_error" THEN Exc("HTTPError", 0, "", 0, 0)
    ELSE IF reply.t = "not_json" THEN Exc("JSONDecodeError", 0, "", 0, 0)
    ELSE IF ~reply.has_wbi_img THEN Exc("KeyError", 0, "", 0, 0)
    ELSE IF reply \notin { NavReply("json", TRUE, UrlOf(ImgKey), UrlOf(SubKey)),
                           NavReply("json", TRUE, UrlOf(ImgKey2), UrlOf(SubKey)) }
    THEN Exc("IndexError", 0, "", 0, 0)
    ELSE NoExc

\* C9: get_danmu_info fetches the WBI keys on every call, before the
\* getDanmuInfo request; when the fetch fails in the network or the
\* navigation response is malformed, that error comes out of get_danmu_info
\* and no getDanmuInfo request is sent to any host.
C9_KeyFetchFailureSurfaces ==
    op = "danmu" =>
        /\ navFetches = IF pc = "danmu" THEN calls - 1 ELSE calls
        /\ (pc # "danmu" /\ RefNavError(nav) # NoExc) =>
                /\ pc = "done"
                /\ outcome = CallRaised(RefNavError(nav))
                /\ \A i \in Hosts : tasks[i].st = "idle"
        /\ DanmuRequested => /\ nav \in NavReplies
                             /\ RefNavError(nav) = NoExc

\* the second call met keys too short for the mixing table and raised
C9_Witness ==
    /\ op = "danmu"
    /\ calls = 2
    /\ base_urls # <<>>
    /\ nav = NavReply("json", TRUE, UrlOf(ImgKey), UrlOf(SubSeq(SubKey, 1, 31)))
    /\ outcome.kind = "raise"
    /\ outcome.exc.cls = "IndexError"


=============================================================================
